---- MODULE Spec2Model ----
(***************************************************************************)
(* State-machine model of the two device adapters of homebridge-meross:    *)
(*   deviceLocalLightbulb  (src/unnamed/part_000)                          *)
(*   deviceHumidifier      (src/lib/device/humidifier.js)                  *)
(* One run of the model follows ONE accessory; Init draws its class and    *)
(* model.  Every write handler submits an async task to a p-queue with     *)
(* concurrency 1 and a 10 s timeout; the task body is modelled await by    *)
(* await (queued -> sleep -> sending -> done).                             *)
(***************************************************************************)
EXTENDS Integers, Sequences, FiniteSets, TLC

\* ------------------------------------------------------------------------
\* Bounds of the model
\* ------------------------------------------------------------------------
\* number of tasks handed to queue.add in one run (hub writes and queued polls)
MaxTasks == 2
\* number of lightbulb status requests that may be outstanding together
MaxPolls == 1

\* ------------------------------------------------------------------------
\* JavaScript values of the slots that the code fills with mixed types
\* (cacheState receives booleans and, in the poll handler, numbers)
\* ------------------------------------------------------------------------
JSBool(b) == [t |-> "boolean", n |-> IF b THEN 1 ELSE 0]
JSNum(x) == [t |-> "number", n |-> x]
JSStr(s) == [t |-> "string", n |-> IF s = "on" THEN 1 ELSE 0]

\* ------------------------------------------------------------------------
\* Accessories and the values the hub writes
\* ------------------------------------------------------------------------
ColourModels == {"MSL100", "MSL420", "MSL120", "MSL320"}
\* refreshRate is the configured polling interval in seconds, 0 for none
Accessories ==
  { [class |-> "lightbulb", model |-> "MSL120", refreshRate |-> 5],
    [class |-> "lightbulb", model |-> "MSS1101", refreshRate |-> 0],
    [class |-> "humidifier", model |-> "MSXH0", refreshRate |-> 0] }

\* the constructor has started the refresh interval timer
Polling(a) ==
  IF a.class = "lightbulb" THEN a.refreshRate > 0   \* if (refreshRate > 0)
  ELSE TRUE                                         \* setInterval, always

\* the tasks the constructor hands to the queue (the humidifier's first poll)
Startup(a) == IF a.class = "humidifier" THEN 1 ELSE 0

BrightValues == {55}
HueValues == {10, 20}
SatValues == {100}
MiredValues == {496}
SpeedValues == {0, 60}
BoolValues == {0, 1}

Debounced == {"Bright", "Colour", "CT"}
WriteHandlers == {"State", "Bright", "Colour", "CT", "FanState", "FanSpeed"}

\* the set handlers the constructor registers for an accessory
Handlers(a) ==
  IF a.class = "humidifier" THEN {"FanState", "FanSpeed"}
  ELSE IF a.model \in ColourModels THEN {"State", "Bright", "Colour", "CT"}
  ELSE {"State", "Bright"}

Values(h) ==
  CASE h = "State" -> BoolValues
    [] h = "Bright" -> BrightValues
    [] h = "Colour" -> HueValues
    [] h = "CT" -> MiredValues
    [] h = "FanState" -> BoolValues
    [] h = "FanSpeed" -> SpeedValues

\* the hub characteristic a handler is registered on
CharOf(h) ==
  CASE h = "State" -> "On"
    [] h = "Bright" -> "Brightness"
    [] h = "Colour" -> "Hue"
    [] h = "CT" -> "ColorTemperature"
    [] h = "FanState" -> "On"
    [] h = "FanSpeed" -> "RotationSpeed"

\* the value the hub holds for a characteristic after a write intent
HubValue(h, v) ==
  IF h \in {"State", "FanState"} THEN JSBool(v = 1) ELSE JSNum(v)

\* ------------------------------------------------------------------------
\* Unit converter of the humidifier
\* ------------------------------------------------------------------------
hk2mr_Below75(speed) == IF speed = 0 THEN 0 ELSE IF speed < 75 THEN 2 ELSE 1

hk2mr(speed) == IF speed = 0 THEN 0 ELSE IF speed <= 75 THEN 2 ELSE 1

mr2hk(speed) == IF speed = 0 THEN 0 ELSE IF speed = 1 THEN 100 ELSE 50

\* the rounding of internalFanSpeedUpdate to the valid values 0, 50, 100
Quantise(value) == IF value = 0 THEN 0 ELSE IF value <= 75 THEN 50 ELSE 100

\* ------------------------------------------------------------------------
\* Unit converter of the lightbulb (colour temperature)
\* ------------------------------------------------------------------------
\* Math.round of the rational p/q, q > 0, p >= 0
RoundDiv(p, q) == (2 * p + q) \div (2 * q)

\* device temperature (0..100) to mired: round(140 + (360 - temp/100*360))
Temp2Mired(temp) == RoundDiv(50000 - 360 * temp, 100)

\* the rounded quotient before a computed 0 is coerced
Mired2Temp_NoCoercion(value) ==
  IF value = 293 THEN 57 ELSE RoundDiv((360 - (value - 140)) * 100, 360)

\* mired to device temperature, a computed 0 coerced to 1.  The quotient is
\* a double: over 140..500 Math.round agrees with the exact rounding except
\* at 293, where (207 / 360) * 100 is 57.49999999999999 and rounds to 57.
Mired2Temp(value) ==
  LET merossTemp == IF value = 293 THEN 57
                    ELSE RoundDiv((360 - (value - 140)) * 100, 360)
  IN IF merossTemp = 0 THEN 1 ELSE merossTemp

VARIABLES
  accessory,         \* the accessory this device object was built for
  cacheState,        \* lightbulb: this.cacheState (a JS value)
  cacheBright,       \* lightbulb: this.cacheBright
  cacheHue,          \* lightbulb: this.cacheHue
  cacheSat,          \* lightbulb: this.cacheSat
  cacheMired,        \* lightbulb: this.cacheMired
  cacheFanState,     \* humidifier: this.cacheFanState
  cacheFanSpeed,     \* humidifier: this.cacheFanSpeed (device mode 0, 1, 2)
  updateKey,         \* lightbulb: updateKeyBright / updateKeyColour / updateKeyCT
  updateInProgress,  \* this.updateInProgress
  alActive,          \* alController.isAdaptiveLightingActive()
  queue,             \* tasks waiting in the p-queue, oldest first
  tasks,             \* every task handed to queue.add, by submission number
  polls,             \* lightbulb: status requests awaiting their response
  timers,            \* outstanding 2 s setTimeout callbacks
  hub,               \* hub-visible value of every characteristic
  pollSkipped,       \* the latest step was a poll that returned at the flag test
  isOnline,          \* humidifier: accessory.context.isOnline
  ipAddress,         \* humidifier: accessory.context.ipAddress
  ctxSaved,          \* the latest step called platform.updateAccessory
  conv,              \* a unit converter applied on its own: name, input, result
  shutdown,          \* lightbulb: the hub's shutdown event has been delivered
  confirmedOn        \* the power value a write had confirmed while the status
                     \* request still outstanding was in flight, or Absent

caches == <<cacheState, cacheBright, cacheHue, cacheSat, cacheMired,
            cacheFanState, cacheFanSpeed>>

vars == <<accessory, cacheState, cacheBright, cacheHue, cacheSat, cacheMired,
          cacheFanState, cacheFanSpeed, updateKey, updateInProgress, alActive,
          queue, tasks, polls, timers, hub, pollSkipped, isOnline, ipAddress,
          ctxSaved, conv, shutdown, confirmedOn>>

\* a step that does not touch the accessory context
NoContextChange == ctxSaved' = FALSE /\ UNCHANGED <<isOnline, ipAddress>>

IsBulb == accessory.class = "lightbulb"
IsHumidifier == accessory.class = "humidifier"

\* ------------------------------------------------------------------------
\* Status digests: -1 stands for a property the digest does not have
\* ------------------------------------------------------------------------
Absent == -1
NoDigest == [onoff |-> Absent, lum |-> Absent, rgb |-> Absent, temp |-> Absent,
             spray |-> Absent]
Digest(onoff, lum, rgb, temp, spray) ==
  [onoff |-> onoff, lum |-> lum, rgb |-> rgb, temp |-> temp, spray |-> spray]
BulbDigests ==
  { NoDigest,
    Digest(0, Absent, Absent, Absent, Absent),
    Digest(1, Absent, Absent, Absent, Absent),
    Digest(1, 55, Absent, Absent, Absent),
    Digest(0, 55, Absent, 1, Absent),
    Digest(1, 55, Absent, 1, Absent),
    Digest(1, 55, 255, 1, Absent) }
HumDigests ==
  [onoff : {Absent}, lum : {Absent}, rgb : {Absent}, temp : {Absent},
   spray : {0, 1, 2}] \cup {NoDigest}

\* ------------------------------------------------------------------------
\* Tasks
\* ------------------------------------------------------------------------
NoCmd == [ns |-> "none", key |-> "none", val |-> 0, cap |-> 0]

\* A task as queue.add receives it: handler h called with value v.  The
\* fields after pc record what happened to it: timedOut (the queue rejected its
\* promise), res (what the send returned), out (how the body ended), cmd (the
\* payload it sent), err (hub errors thrown by its handler), rev (revert timers
\* set by its handler), wrote (the body assigned a cache), over (the earlier
\* writes of the same characteristic that were in their debounce wait when
\* this one was submitted).
NewTask(h, v, over) ==
  [h |-> h, v |-> v, pc |-> "queued", timedOut |-> FALSE, res |-> "none",
   out |-> "pending", cmd |-> NoCmd, sent |-> FALSE, err |-> 0, rev |-> 0,
   wrote |-> FALSE, over |-> over]

\* a task whose body has returned or thrown: the closure is released, the
\* record of what happened stays (h keeps only whether it was a poll; a poll
\* task raises no hub error and sets no timer, so nothing else is kept of it)
Finished(t, out, res, wrote, caught) ==
  IF t.h = "Poll"
  THEN [NewTask("Poll", 0, {}) EXCEPT !.pc = "done", !.out = "polled",
                                       !.sent = TRUE]
  ELSE [h |-> "write", v |-> 0, pc |-> "done", timedOut |-> t.timedOut,
        res |-> res, out |-> out, cmd |-> NoCmd, sent |-> t.sent,
        err |-> IF caught THEN t.err + 1 ELSE t.err,
        rev |-> IF caught THEN t.rev + 1 ELSE t.rev,
        wrote |-> wrote, over |-> {}]

Ids == 1..Len(tasks)

\* p-queue's pending count: started tasks whose promise is not settled
Pending(ts) ==
  {i \in 1..Len(ts) : ts[i].pc \in {"sleep", "sending"} /\ ~ts[i].timedOut}

\* an 'idle' that waited for the timed-out tasks as well
AfterNext_AwaitsTimedOut(flag, q, ts) ==
  IF q = <<>> /\ {i \in 1..Len(ts) : ts[i].pc \in {"sleep", "sending"}} = {}
  THEN FALSE ELSE flag

\* the queue's 'idle' handler, run by _next() when nothing is queued or pending
AfterNext(flag, q, ts) ==
  IF q = <<>> /\ Pending(ts) = {} THEN FALSE ELSE flag

\* no converter has been called yet
NoConv == [fn |-> "none", in |-> <<>>, out |-> <<>>]

\* the humidifier's first poll, requestUpdate(true), as the constructor leaves
\* it: started by queue.add, the flag raised and the request sent
FirstPoll ==
  [NewTask("Poll", 1, {}) EXCEPT
     !.pc = "sending", !.sent = TRUE,
     !.cmd = [ns |-> "Appliance.System.All", key |-> "none", val |-> 0,
              cap |-> 0]]

Init ==
  /\ accessory \in Accessories
  /\ hub = [On |-> JSBool(FALSE), Brightness |-> JSNum(40), Hue |-> JSNum(0),
            Saturation |-> JSNum(100), ColorTemperature |-> JSNum(320),
            RotationSpeed |-> JSNum(0)]
  /\ cacheState = hub.On
  /\ cacheBright = hub.Brightness.n
  /\ cacheHue = hub.Hue.n
  /\ cacheSat = hub.Saturation.n
  /\ cacheMired = hub.ColorTemperature.n
  /\ cacheFanState = (hub.On.n = 1)
  /\ cacheFanSpeed = hk2mr(hub.RotationSpeed.n)
  /\ updateKey = [h \in Debounced |-> 0]
  /\ updateInProgress = IsHumidifier
  /\ alActive = (accessory.model \in ColourModels)
  /\ queue = <<>>
  /\ tasks = IF IsHumidifier THEN <<FirstPoll>> ELSE <<>>
  /\ polls = IF IsBulb THEN 1 ELSE 0
  /\ timers = {}
  /\ pollSkipped = FALSE
  /\ isOnline = TRUE
  /\ ipAddress = 1
  /\ ctxSaved = FALSE
  /\ conv = NoConv
  /\ shutdown = FALSE
  /\ confirmedOn = Absent

\* ------------------------------------------------------------------------
\* Helpers of the write handlers
\* ------------------------------------------------------------------------
\* colourUtils.hs2rgb (platform code): hue 0..359 and saturation 0..100 at
\* full value, to r, g, b in 0..255
hs2rgb(h, s) ==
  LET f == h % 60
      p == RoundDiv(255 * (100 - s), 100)
      q == RoundDiv(255 * (6000 - s * f), 6000)
      u == RoundDiv(255 * (6000 - s * (60 - f)), 6000)
      sector == (h \div 60) % 6
  IN CASE sector = 0 -> <<255, u, p>>
       [] sector = 1 -> <<q, 255, p>>
       [] sector = 2 -> <<p, 255, u>>
       [] sector = 3 -> <<p, q, 255>>
       [] sector = 4 -> <<u, p, 255>>
       [] sector = 5 -> <<255, p, q>>

\* (r << 16) + (g << 8) + b
PackRGB(rgb) == rgb[1] * 65536 + rgb[2] * 256 + rgb[3]

\* a & b of two non-negative integers
RECURSIVE BitAnd(_, _)
BitAnd(a, b) ==
  IF a = 0 \/ b = 0 THEN 0
  ELSE (a % 2) * (b % 2) + 2 * BitAnd(a \div 2, b \div 2)

\* the masks without the shift of the green channel
UnpackRGB_GreenUnshifted(newRGB) ==
  <<BitAnd(newRGB, 16711680) \div 65536, BitAnd(newRGB, 65280),
    BitAnd(newRGB, 255)>>

\* (newRGB & 0xff0000) >> 16, (newRGB & 0x00ff00) >> 8, newRGB & 0x0000ff
UnpackRGB(newRGB) ==
  <<BitAnd(newRGB, 16711680) \div 65536, BitAnd(newRGB, 65280) \div 256,
    BitAnd(newRGB, 255)>>

\* SameAsCache with the brightness test reading the power cache
SameAsCache_BrightReadsState(h, v) ==
  CASE h = "State" -> JSBool(v = 1) = cacheState
    [] h = "Bright" -> cacheState = JSNum(v)
    [] h = "Colour" -> cacheHue = v
    [] h = "CT" -> cacheMired = v
    [] h = "FanState" -> (v = 1) = cacheFanState
    [] h = "FanSpeed" -> hk2mr(Quantise(v)) = cacheFanSpeed

\* the test that opens every write task: the target is the cached value
SameAsCache(h, v) ==
  CASE h = "State" -> JSBool(v = 1) = cacheState
    [] h = "Bright" -> cacheBright = v
    [] h = "Colour" -> cacheHue = v
    [] h = "CT" -> cacheMired = v
    [] h = "FanState" -> (v = 1) = cacheFanState
    [] h = "FanSpeed" -> hk2mr(Quantise(v)) = cacheFanSpeed

\* the second test of internalCTUpdate, after the debounce wait
CTRejected(v) == cacheState # JSStr("on") \/ cacheMired = v

\* namespace and payload handed to the platform's send function
Payload(h, v) ==
  CASE h = "State" ->
         [ns |-> "Appliance.Control.ToggleX", key |-> "onoff",
          val |-> IF v = 1 THEN 1 ELSE 0, cap |-> 0]
    [] h = "Bright" ->
         [ns |-> "Appliance.Control.Light", key |-> "luminance", val |-> v,
          cap |-> IF accessory.model \in ColourModels THEN 4 ELSE 0]
    [] h = "Colour" ->
         [ns |-> "Appliance.Control.Light", key |-> "rgb",
          val |-> PackRGB(hs2rgb(v, hub.Saturation.n)), cap |-> 1]
    [] h = "CT" ->
         [ns |-> "Appliance.Control.Light", key |-> "temperature",
          val |-> Mired2Temp(v), cap |-> 2]
    [] h = "FanState" ->
         [ns |-> "Appliance.Control.Spray", key |-> "mode",
          val |-> IF v = 1 THEN (IF cacheFanSpeed > 1 THEN cacheFanSpeed ELSE 1)
                  ELSE 0,
          cap |-> 0]
    [] h = "FanSpeed" ->
         [ns |-> "Appliance.Control.Spray", key |-> "mode",
          val |-> hk2mr(Quantise(v)), cap |-> 0]
    [] h = "Poll" ->
         [ns |-> "Appliance.System.All", key |-> "none", val |-> 0, cap |-> 0]

\* what the platform's send function can produce: a response with a valid
\* header, a response whose header method is ERROR, or an exception
Responses == {"ok", "error", "throw"}

\* does the task body carry on after the send returned r
ResponseAccepted(h, r) ==
  IF h \in {"FanState", "FanSpeed"}
  THEN r # "throw"      \* the humidifier does not look at the response
  ELSE r = "ok"         \* !res.data || !res.data.header || method === 'ERROR'

\* Commit with the brightness handler assigning the power cache
Commit_BrightIntoState(h, v) ==
  [cacheState |-> IF h = "State" THEN JSBool(v = 1)
                  ELSE IF h = "Bright" THEN JSNum(v) ELSE cacheState,
   cacheBright |-> cacheBright,
   cacheHue |-> IF h = "Colour" THEN v ELSE cacheHue,
   cacheSat |-> IF h = "Colour" THEN hub.Saturation.n ELSE cacheSat,
   cacheMired |-> IF h = "CT" THEN v ELSE cacheMired,
   cacheFanState |-> IF h = "FanState" THEN v = 1 ELSE cacheFanState,
   cacheFanSpeed |-> IF h = "FanSpeed" /\ Quantise(v) # 0
                     THEN hk2mr(Quantise(v)) ELSE cacheFanSpeed]

\* the caches after a write task's response was accepted
Commit(h, v) ==
  [cacheState |-> IF h = "State" THEN JSBool(v = 1) ELSE cacheState,
   cacheBright |-> IF h = "Bright" THEN v ELSE cacheBright,
   cacheHue |-> IF h = "Colour" THEN v ELSE cacheHue,
   cacheSat |-> IF h = "Colour" THEN hub.Saturation.n ELSE cacheSat,
   cacheMired |-> IF h = "CT" THEN v ELSE cacheMired,
   cacheFanState |-> IF h = "FanState" THEN v = 1 ELSE cacheFanState,
   cacheFanSpeed |-> IF h = "FanSpeed" /\ Quantise(v) # 0
                     THEN hk2mr(Quantise(v)) ELSE cacheFanSpeed]

\* the value a 2 s timer pushes to a characteristic when it fires
CachedHubValue(ch) ==
  CASE ch = "On" -> IF IsBulb THEN cacheState ELSE JSBool(cacheFanState)
    [] ch = "Brightness" -> JSNum(cacheBright)
    [] ch = "Hue" -> JSNum(cacheHue)
    [] ch = "ColorTemperature" -> JSNum(cacheMired)
    [] ch = "RotationSpeed" -> JSNum(mr2hk(cacheFanSpeed))

\* pre of a timer whose write did not end by a protocol failure
NoPre == JSNum(0)

\* the timer set by the catch block of a write handler after the task ended
\* with r; for a protocol failure pre records the cached value at that moment
RevertTimer(id, h, r) ==
  [id |-> id, ch |-> CharOf(h), why |-> "revert",
   pre |-> IF r = "error" THEN CachedHubValue(CharOf(h)) ELSE NoPre]

\* the timer set by internalFanSpeedUpdate after turning off with the slider
RestoreTimer(id) ==
  [id |-> id, ch |-> "RotationSpeed", why |-> "restore", pre |-> NoPre]

\* ------------------------------------------------------------------------
\* The hub invokes a set handler: the handler hands its task to queue.add
\* ------------------------------------------------------------------------
Write(h, v) ==
  /\ UNCHANGED <<conv, shutdown, confirmedOn>>
  /\ Len(tasks) < MaxTasks + Startup(accessory)
  /\ h \in Handlers(accessory)
  /\ LET id == Len(tasks) + 1
         over == IF h \in Debounced /\ ~SameAsCache(h, v)
                 THEN {i \in Ids : tasks[i].h = h /\ tasks[i].pc = "sleep"}
                 ELSE {}
     IN /\ tasks' = Append(tasks, NewTask(h, v, over))
        /\ queue' = Append(queue, id)
  /\ hub' = [hub EXCEPT ![CharOf(h)] = HubValue(h, v)]
  /\ NoContextChange
  /\ pollSkipped' = FALSE
  /\ UNCHANGED <<accessory, caches, updateKey, updateInProgress, alActive,
                 polls, timers>>

\* ------------------------------------------------------------------------
\* The queue starts its oldest task: the body runs to its first await
\* ------------------------------------------------------------------------
Start ==
  /\ UNCHANGED <<conv, shutdown, confirmedOn>>
  /\ queue # <<>>
  /\ Pending(tasks) = {}
  /\ LET id == Head(queue)
         t == tasks[id]
     IN /\ queue' = Tail(queue)
        /\ IF t.h # "Poll" /\ SameAsCache(t.h, t.v)
           THEN \* return: the task is over and _next() runs
                /\ tasks' = [tasks EXCEPT ![id] =
                               Finished(t, "noop", "none", FALSE, FALSE)]
                /\ updateInProgress' =
                     AfterNext(updateInProgress, Tail(queue), tasks')
                /\ UNCHANGED updateKey
           ELSE IF t.h \in Debounced
           THEN \* a fresh token, then sleep(300)
                /\ tasks' = [tasks EXCEPT ![id] = [@ EXCEPT !.pc = "sleep"]]
                /\ updateKey' = [updateKey EXCEPT ![t.h] = id]
                /\ UNCHANGED updateInProgress
           ELSE \* raise the flag and send
                /\ tasks' = [tasks EXCEPT ![id] =
                               [@ EXCEPT !.pc = "sending", !.sent = TRUE,
                                         !.cmd = Payload(t.h, t.v)]]
                /\ updateInProgress' = TRUE
                /\ UNCHANGED updateKey
  /\ NoContextChange
  /\ pollSkipped' = FALSE
  /\ UNCHANGED <<accessory, caches, alActive, polls, timers, hub>>

\* ------------------------------------------------------------------------
\* sleep(300) of a debounced write is over
\* ------------------------------------------------------------------------
Wake(id) ==
  /\ UNCHANGED <<conv, shutdown, confirmedOn>>
  /\ id \in Ids
  /\ tasks[id].pc = "sleep"
  /\ LET t == tasks[id]
     IN IF updateKey[t.h] # id
        THEN \* superseded: return
             /\ tasks' = [tasks EXCEPT ![id] =
                            Finished(t, "superseded", "none", FALSE, FALSE)]
             /\ updateInProgress' = AfterNext(updateInProgress, queue, tasks')
        ELSE IF t.h = "CT" /\ CTRejected(t.v)
        THEN \* the flag is raised, then the task returns
             /\ tasks' = [tasks EXCEPT ![id] =
                            Finished(t, "dropped", "none", FALSE, FALSE)]
             /\ updateInProgress' = AfterNext(TRUE, queue, tasks')
        ELSE /\ tasks' = [tasks EXCEPT ![id] =
                            [@ EXCEPT !.pc = "sending", !.sent = TRUE,
                                      !.cmd = Payload(t.h, t.v)]]
             /\ updateInProgress' = TRUE
  /\ NoContextChange
  /\ pollSkipped' = FALSE
  /\ UNCHANGED <<accessory, caches, updateKey, alActive, queue, polls, timers,
                 hub>>

\* ------------------------------------------------------------------------
\* The platform's send function settles for a write task
\* ------------------------------------------------------------------------
\* a status request has been sent and its response has not arrived
StatusOutstanding ==
  IF IsBulb THEN polls > 0
  ELSE \E i \in Ids : tasks[i].h = "Poll" /\ tasks[i].pc = "sending"

RespondWrite(id, r) ==
  /\ UNCHANGED <<conv, shutdown>>
  /\ confirmedOn' =
       IF /\ r = "ok" /\ ~tasks[id].timedOut
          /\ tasks[id].h \in {"State", "FanState"}
          /\ StatusOutstanding
       THEN tasks[id].v ELSE confirmedOn
  /\ id \in Ids
  /\ tasks[id].pc = "sending"
  /\ tasks[id].h # "Poll"
  /\ LET t == tasks[id]
         live == ~t.timedOut   \* the queue still awaits the task's promise
         c == Commit(t.h, t.v)
         off == t.h = "FanSpeed" /\ Quantise(t.v) = 0
     IN IF ResponseAccepted(t.h, r)
        THEN /\ cacheState' = c.cacheState
             /\ cacheBright' = c.cacheBright
             /\ cacheHue' = c.cacheHue
             /\ cacheSat' = c.cacheSat
             /\ cacheMired' = c.cacheMired
             /\ cacheFanState' = c.cacheFanState
             /\ cacheFanSpeed' = c.cacheFanSpeed
             /\ timers' = IF off THEN timers \cup {RestoreTimer(id)} ELSE timers
             /\ tasks' = [tasks EXCEPT ![id] = Finished(t, "ok", r, ~off, FALSE)]
             /\ updateInProgress' =
                  IF live THEN AfterNext(updateInProgress, queue, tasks')
                  ELSE updateInProgress
        ELSE \* the body throws; the handler's catch runs unless the promise
             \* was already rejected by the timeout
             /\ timers' = IF live THEN timers \cup {RevertTimer(id, t.h, r)}
                          ELSE timers
             /\ tasks' = [tasks EXCEPT ![id] =
                            Finished(t, "failed", r, FALSE, live)]
             /\ updateInProgress' =
                  IF live THEN AfterNext(updateInProgress, queue, tasks')
                  ELSE updateInProgress
             /\ UNCHANGED caches
  /\ NoContextChange
  /\ pollSkipped' = FALSE
  /\ UNCHANGED <<accessory, updateKey, alActive, queue, polls, hub>>

\* ------------------------------------------------------------------------
\* Humidifier: the accessory context kept by requestUpdate
\* ------------------------------------------------------------------------
\* the texts of the errors a poll can end with: a host that cannot be
\* reached, and any other failure
ErrorTexts == {"EHOSTUNREACH", "other"}

\* the text of the queue's TimeoutError as the catch block sees it
\* (this.lang.timeout)
TimeoutText == "timed out"

\* the catch block of requestUpdate: the device is marked offline when the
\* error text names an unreachable host or a timeout
PollFailed(firstRun, eText) ==
  IF (isOnline \/ firstRun) /\ eText \in {"EHOSTUNREACH", "timed out"}
  THEN [isOnline |-> FALSE, saved |-> TRUE]
  ELSE [isOnline |-> isOnline, saved |-> FALSE]

\* data.all.system of a poll response: absent, or the device's address and
\* its online status
NoSystem == [present |-> FALSE, innerIp |-> Absent, status |-> Absent]
SysInfos ==
  { NoSystem,
    [present |-> TRUE, innerIp |-> 1, status |-> 1],
    [present |-> TRUE, innerIp |-> 2, status |-> 1],
    [present |-> TRUE, innerIp |-> 1, status |-> 0] }

\* PollContext without the test of data.all.system.online
PollContext_OnlineUntracked(firstRun, sy) ==
  LET ipCh == sy.present /\ ipAddress # sy.innerIp
  IN [ipAddress |-> IF ipCh THEN sy.innerIp ELSE ipAddress,
      isOnline |-> isOnline,
      saved |-> sy.present /\ (ipCh \/ firstRun)]

\* the context part of requestUpdate after the digest was applied; without
\* data.all.system the read of data.all.system.online throws
PollContext(firstRun, sy) ==
  LET ipCh == sy.present /\ ipAddress # sy.innerIp
      onCh == sy.present /\ isOnline # (sy.status = 1)
  IN [ipAddress |-> IF ipCh THEN sy.innerIp ELSE ipAddress,
      isOnline |-> IF onCh THEN sy.status = 1 ELSE isOnline,
      saved |-> sy.present /\ (ipCh \/ onCh \/ firstRun)]

\* ------------------------------------------------------------------------
\* The queue's 10 s timeout: the task's promise is rejected with a
\* TimeoutError and _next() runs; the body itself is not interrupted
\* ------------------------------------------------------------------------
Timeout(id) ==
  /\ UNCHANGED <<conv, shutdown, confirmedOn>>
  /\ id \in Ids
  /\ tasks[id].pc = "sending"
  /\ ~tasks[id].timedOut
  /\ LET t == tasks[id]
         write == t.h # "Poll"
     IN /\ tasks' = [tasks EXCEPT ![id] =
                       [@ EXCEPT !.timedOut = TRUE,
                                 !.err = IF write THEN @ + 1 ELSE @,
                                 !.rev = IF write THEN @ + 1 ELSE @]]
        /\ timers' = IF write THEN timers \cup {RevertTimer(id, t.h, "timeout")}
                     ELSE timers
  /\ updateInProgress' = AfterNext(updateInProgress, queue, tasks')
  /\ LET c == PollFailed(tasks[id].v = 1, TimeoutText)
     IN IF tasks[id].h = "Poll"
        THEN /\ isOnline' = c.isOnline
             /\ ctxSaved' = c.saved
             /\ UNCHANGED ipAddress
        ELSE NoContextChange
  /\ pollSkipped' = FALSE
  /\ UNCHANGED <<accessory, caches, updateKey, alActive, queue, polls, hub>>

\* ------------------------------------------------------------------------
\* A 2 s timer fires: the characteristic is set from the cache as it is now
\* ------------------------------------------------------------------------
Fire(tm) ==
  /\ UNCHANGED <<conv, shutdown, confirmedOn>>
  /\ tm \in timers
  /\ timers' = timers \ {tm}
  /\ hub' = [hub EXCEPT ![tm.ch] = CachedHubValue(tm.ch)]
  /\ NoContextChange
  /\ pollSkipped' = FALSE
  /\ UNCHANGED <<accessory, caches, updateKey, updateInProgress, alActive,
                 queue, tasks, polls>>

\* ------------------------------------------------------------------------
\* Poll / reconcile
\* ------------------------------------------------------------------------
\* SkipPoll returning only while a task still waits in the queue
SkipPoll_OnlyWhileQueued == updateInProgress /\ queue # <<>>

\* the test that opens requestDeviceUpdate and requestUpdate
SkipPoll == updateInProgress

Abs(x) == IF x < 0 THEN -x ELSE x

\* this.deviceStatus is read by the rgb branch but never assigned
deviceStatus == "undefined"

\* The merge of requestDeviceUpdate into the caches c, field by field in the
\* order of the code; emits lists the updateCharacteristic calls.
\* The luminance branch compares with, and assigns, cacheState.  The rgb
\* branch dereferences this.deviceStatus: the TypeError ends the merge in the
\* catch block, so a temperature in the same digest is not looked at.
MergeBulb(c, d) ==
  LET light == accessory.model # "MSS1101"
      newState == JSBool(d.onoff = 1)
      onCh == d.onoff # Absent /\ c.cacheState # newState
      s1 == IF onCh THEN newState ELSE c.cacheState
      lumCh == light /\ d.lum # Absent /\ s1 # JSNum(d.lum)
      s2 == IF lumCh THEN JSNum(d.lum) ELSE s1
      thrown == light /\ d.rgb # Absent /\ deviceStatus = "undefined"
      merossTemp == Temp2Mired(d.temp)
      tempCh == light /\ ~thrown /\ d.temp # Absent /\ c.cacheMired # merossTemp
      dif == Abs(c.cacheMired - merossTemp)
  IN [cacheState |-> s2,
      cacheMired |-> IF tempCh THEN merossTemp ELSE c.cacheMired,
      alActive |-> IF tempCh /\ dif > 10 THEN FALSE ELSE c.alActive,
      emits |-> (IF onCh THEN {<<"On", newState>>} ELSE {})
                \cup (IF lumCh THEN {<<"Brightness", JSNum(d.lum)>>} ELSE {})
                \cup (IF tempCh THEN {<<"ColorTemperature", JSNum(merossTemp)>>}
                      ELSE {})]

\* applyUpdate of the humidifier, applied to the caches c
applyUpdate(c, d) ==
  LET newSpeed == d.spray
      ch == d.spray # Absent /\ c.cacheFanSpeed # newSpeed
      turnOff == ch /\ newSpeed = 0
      turnOn == ch /\ newSpeed # 0 /\ ~c.cacheFanState
      speedCh == ch /\ newSpeed # 0
  IN [cacheFanSpeed |-> IF ch THEN newSpeed ELSE c.cacheFanSpeed,
      cacheFanState |-> IF turnOff THEN FALSE
                        ELSE IF turnOn THEN TRUE ELSE c.cacheFanState,
      emits |-> (IF turnOff THEN {<<"On", JSBool(FALSE)>>} ELSE {})
                \cup (IF turnOn THEN {<<"On", JSBool(TRUE)>>} ELSE {})
                \cup (IF speedCh
                      THEN {<<"RotationSpeed", JSNum(mr2hk(newSpeed))>>}
                      ELSE {})]

\* the hub after the updateCharacteristic calls of a merge
Pushed(h, emits) ==
  [ch \in DOMAIN h |->
     IF \E e \in emits : e[1] = ch
     THEN (CHOOSE e \in emits : e[1] = ch)[2]
     ELSE h[ch]]

BulbCaches ==
  [cacheState |-> cacheState, cacheMired |-> cacheMired, alActive |-> alActive]

HumCaches == [cacheFanSpeed |-> cacheFanSpeed, cacheFanState |-> cacheFanState]

\* this.refreshInterval, the field the shutdown handler tests and clears; the
\* constructor stores its timer in this.refreshinterval, so it is never set
refreshInterval == "undefined"

\* the interval timer of the periodic poll is running
IntervalRunning ==
  Polling(accessory) /\ ~(IsBulb /\ shutdown /\ refreshInterval # "undefined")

\* lightbulb: the hub's shutdown event runs the handler of the constructor
onShutdown ==
  /\ IsBulb
  /\ ~shutdown
  /\ shutdown' = TRUE
  /\ NoContextChange
  /\ pollSkipped' = FALSE
  /\ UNCHANGED <<conv, confirmedOn, accessory, caches, updateKey,
                 updateInProgress, alActive, queue, tasks, polls, timers, hub>>

\* lightbulb: the constructor or the refresh interval calls requestDeviceUpdate
requestDeviceUpdate ==
  /\ UNCHANGED <<conv, shutdown, confirmedOn>>
  /\ IsBulb
  /\ IntervalRunning
  /\ IF SkipPoll
     THEN /\ pollSkipped' = TRUE
          /\ UNCHANGED polls
     ELSE /\ polls < MaxPolls
          /\ polls' = polls + 1
          /\ pollSkipped' = FALSE
  /\ NoContextChange
  /\ UNCHANGED <<accessory, caches, updateKey, updateInProgress, alActive,
                 queue, tasks, timers, hub>>

\* lightbulb: requestLocalDeviceUpdate settles and the response is merged
pollResponse(r, d) ==
  /\ UNCHANGED <<conv, shutdown>>
  /\ confirmedOn' = Absent
  /\ IsBulb
  /\ polls > 0
  /\ polls' = polls - 1
  /\ IF r = "ok"
     THEN LET m == MergeBulb(BulbCaches, d)
          IN /\ cacheState' = m.cacheState
             /\ cacheMired' = m.cacheMired
             /\ alActive' = m.alActive
             /\ hub' = Pushed(hub, m.emits)
     ELSE UNCHANGED <<cacheState, cacheMired, hub, alActive>>
  /\ NoContextChange
  /\ pollSkipped' = FALSE
  /\ UNCHANGED <<accessory, cacheBright, cacheHue, cacheSat, cacheFanState,
                 cacheFanSpeed, updateKey, updateInProgress, queue, tasks,
                 timers>>

\* humidifier: the constructor or the refresh interval calls requestUpdate
requestUpdate ==
  /\ UNCHANGED <<conv, shutdown, confirmedOn>>
  /\ IsHumidifier
  /\ IntervalRunning
  /\ IF SkipPoll
     THEN /\ pollSkipped' = TRUE
          /\ UNCHANGED <<tasks, queue>>
     ELSE /\ Len(tasks) < MaxTasks + Startup(accessory)
          /\ tasks' = Append(tasks, NewTask("Poll", 0, {}))
          /\ queue' = Append(queue, Len(tasks) + 1)
          /\ pollSkipped' = FALSE
  /\ NoContextChange
  /\ UNCHANGED <<accessory, caches, updateKey, updateInProgress, alActive,
                 polls, timers, hub>>

\* the poll applies data.all.digest
PollMerge(c, d) == applyUpdate(c, d)

\* PushMerge applying only messages that carry light data
PushMerge_LightOnly(c, d) ==
  IF d.lum # Absent \/ d.rgb # Absent \/ d.temp # Absent
  THEN applyUpdate(c, d)
  ELSE [cacheFanSpeed |-> c.cacheFanSpeed, cacheFanState |-> c.cacheFanState,
        emits |-> {}]

\* the push applies params.payload when it has spray or light data
PushMerge(c, d) ==
  IF d.spray # Absent \/ d.lum # Absent \/ d.rgb # Absent \/ d.temp # Absent
  THEN applyUpdate(c, d)
  ELSE [cacheFanSpeed |-> c.cacheFanSpeed, cacheFanState |-> c.cacheFanState,
        emits |-> {}]

\* what sendUpdate can produce for the status request: a response, or an
\* error with one of the texts
PollResponses == {"ok", "error"} \cup ErrorTexts

\* humidifier: sendUpdate settles for a queued poll task
RespondPoll(id, r, d, sy) ==
  /\ UNCHANGED <<conv, shutdown>>
  /\ confirmedOn' = Absent
  /\ id \in Ids
  /\ tasks[id].pc = "sending"
  /\ tasks[id].h = "Poll"
  /\ LET live == ~tasks[id].timedOut
         firstRun == tasks[id].v = 1
     IN /\ IF r = "ok"
           THEN LET m == PollMerge(HumCaches, d)
                    c == PollContext(firstRun, sy)
                IN /\ cacheFanSpeed' = m.cacheFanSpeed
                   /\ cacheFanState' = m.cacheFanState
                   /\ hub' = Pushed(hub, m.emits)
                   /\ isOnline' = c.isOnline
                   /\ ipAddress' = c.ipAddress
                   /\ ctxSaved' = c.saved
           ELSE /\ UNCHANGED <<cacheFanSpeed, cacheFanState, hub, ipAddress>>
                /\ IF live /\ r \in ErrorTexts
                   THEN LET c == PollFailed(firstRun, r)
                        IN isOnline' = c.isOnline /\ ctxSaved' = c.saved
                   ELSE isOnline' = isOnline /\ ctxSaved' = FALSE
        /\ tasks' = [tasks EXCEPT ![id] =
                       Finished(tasks[id], "polled", r, FALSE, FALSE)]
        /\ updateInProgress' =
             IF live THEN AfterNext(updateInProgress, queue, tasks')
             ELSE updateInProgress
  /\ pollSkipped' = FALSE
  /\ UNCHANGED <<accessory, cacheState, cacheBright, cacheHue, cacheSat,
                 cacheMired, updateKey, alActive, queue, polls, timers>>

\* humidifier: a push message arrives
receiveUpdate(d) ==
  /\ UNCHANGED <<conv, shutdown, confirmedOn>>
  /\ IsHumidifier
  /\ LET m == PushMerge(HumCaches, d)
     IN /\ cacheFanSpeed' = m.cacheFanSpeed
        /\ cacheFanState' = m.cacheFanState
        /\ hub' = Pushed(hub, m.emits)
  /\ NoContextChange
  /\ pollSkipped' = FALSE
  /\ UNCHANGED <<accessory, cacheState, cacheBright, cacheHue, cacheSat,
                 cacheMired, updateKey, updateInProgress, alActive, queue,
                 tasks, polls, timers>>

Next ==
  \/ \E h \in WriteHandlers : \E v \in Values(h) : Write(h, v)
  \/ Start
  \/ \E id \in Ids : Wake(id)
  \/ \E id \in Ids, r \in Responses : RespondWrite(id, r)
  \/ \E id \in Ids : Timeout(id)
  \/ \E tm \in timers : Fire(tm)
  \/ requestDeviceUpdate
  \/ \E r \in {"ok", "throw"}, d \in BulbDigests : pollResponse(r, d)
  \/ requestUpdate
  \/ \E id \in Ids, d \in HumDigests, sy \in SysInfos :
       RespondPoll(id, "ok", d, sy)
  \/ \E id \in Ids, r \in PollResponses \ {"ok"} :
       RespondPoll(id, r, NoDigest, NoSystem)
  \/ \E d \in HumDigests : receiveUpdate(d)
  \/ onShutdown

Spec == Init /\ [][Next]_vars

\* ------------------------------------------------------------------------
\* The unit converters on their own: every converter applied to every input
\* of its range, the device object left as constructed
\* ------------------------------------------------------------------------
SpeedRange == 0..100            \* RotationSpeed percentages
ModeRange == 0..2               \* spray modes of the device
TempRange == 0..100             \* device temperature scale
MiredRange == 140..500          \* ColorTemperature of the hub
ChannelEdges == {0, 1, 128, 255}
\* r, g, b in 0..255 with at most one channel off the edge values
RGBTriples ==
  ((0..255) \X ChannelEdges \X ChannelEdges)
    \cup (ChannelEdges \X (0..255) \X ChannelEdges)
    \cup (ChannelEdges \X ChannelEdges \X (0..255))

device == <<accessory, cacheState, cacheBright, cacheHue, cacheSat,
            cacheMired, cacheFanState, cacheFanSpeed, updateKey,
            updateInProgress, alActive, queue, tasks, polls, timers, hub,
            pollSkipped, isOnline, ipAddress, ctxSaved, shutdown,
            confirmedOn>>

\* a converter is applied once, to the device as constructed
Converted(fn, in, out) ==
  /\ conv' = [fn |-> fn, in |-> in, out |-> out]
  /\ UNCHANGED device

SpeedToMode ==
  /\ IsHumidifier /\ conv = NoConv
  /\ \E s \in SpeedRange : Converted("hk2mr", <<s>>, <<hk2mr(s)>>)

ModeToSpeed ==
  /\ IsHumidifier /\ conv = NoConv
  /\ \E m \in ModeRange : Converted("mr2hk", <<m>>, <<mr2hk(m)>>)

TempToMired ==
  /\ IsBulb /\ conv = NoConv
  /\ \E x \in TempRange : Converted("Temp2Mired", <<x>>, <<Temp2Mired(x)>>)

MiredToTemp ==
  /\ IsBulb /\ conv = NoConv
  /\ \E v \in MiredRange : Converted("Mired2Temp", <<v>>, <<Mired2Temp(v)>>)

Pack ==
  /\ IsBulb /\ conv = NoConv
  /\ \E t \in RGBTriples : Converted("PackRGB", t, <<PackRGB(t)>>)

Unpack ==
  /\ IsBulb /\ conv = NoConv
  /\ \E t \in RGBTriples :
       Converted("UnpackRGB", <<PackRGB(t)>>, UnpackRGB(PackRGB(t)))

NextConverters ==
  \/ SpeedToMode
  \/ ModeToSpeed
  \/ TempToMired
  \/ MiredToTemp
  \/ Pack
  \/ Unpack

Converters == Init /\ [][NextConverters]_vars

\* ========================================================================
\* Claims
\* ========================================================================
\* write tasks whose command is outstanding at the device
InFlight == {i \in Ids : tasks[i].pc = "sending" /\ tasks[i].h # "Poll"}

\* a status request is outstanding at the device
PollInFlight ==
  polls > 0 \/ \E i \in Ids : tasks[i].pc = "sending" /\ tasks[i].h = "Poll"

\* C1 (as claimed): of the writes of one debounced characteristic that arrive
\* while an earlier one is still in its 300 ms wait, only the last sends a
\* command: a write that a later one arrived over never sends.
C1_OnlyLastOfBurstSends ==
  \A j \in Ids : \A i \in tasks[j].over : ~tasks[i].sent

\* C2 (as claimed): at most one write command is in flight at any time, and
\* no write has sent its command while an earlier write still waits to.
C2_OneWriteInFlightInOrder ==
  /\ Cardinality(InFlight) <= 1
  /\ \A i, j \in Ids :
       (i < j /\ tasks[j].sent) => tasks[i].pc \notin {"queued", "sleep"}

\* C3 (as claimed): a write task assigns a cache only after a response with a
\* valid header, and never after its failure was reported: a write that fails
\* by protocol failure, timeout or transport error leaves the caches alone.
C3_CacheOnlyOnConfirmedSuccess ==
  \A i \in Ids :
    (tasks[i].h # "Poll" /\ tasks[i].wrote)
      => (tasks[i].res = "ok" /\ ~tasks[i].timedOut)

\* C4 (as claimed): a write that receives a protocol failure has a revert
\* timer set that holds the value the cache had before the write, and when
\* the timer fires 2 s later the hub-visible value is that value.
C4_RevertToPreFailureValue ==
  [][ /\ \A tm \in timers \ timers' :
           (tm.why = "revert" /\ tasks[tm.id].res = "error")
             => hub'[tm.ch] = tm.pre
      /\ \A i \in Ids :
           (/\ tasks[i].pc = "sending"
            /\ tasks[i].h # "Poll"
            /\ ~tasks[i].timedOut
            /\ tasks'[i].res = "error")
             => \E tm \in timers' :
                  /\ tm.id = i
                  /\ tm.why = "revert"
                  /\ tm.pre = CachedHubValue(CharOf(tasks[i].h))
    ]_vars

\* the target of write task t equals the cache of its characteristic
TargetIsCached(t) ==
  CASE t.h = "State" -> cacheState = JSBool(t.v = 1)
    [] t.h = "Bright" -> cacheBright = t.v
    [] t.h = "Colour" -> cacheHue = t.v
    [] t.h = "CT" -> cacheMired = t.v
    [] t.h = "FanState" -> cacheFanState = (t.v = 1)
    [] t.h = "FanSpeed" -> cacheFanSpeed = hk2mr(Quantise(t.v))
    [] OTHER -> FALSE

\* this step starts write task i while its target equals the cache
NoOpStep(i) ==
  /\ tasks[i].pc = "queued"
  /\ tasks'[i].pc # "queued"
  /\ TargetIsCached(tasks[i])

\* C5 (as claimed): a write whose target equals the cached value when its
\* task starts ends there, sends no command, changes no cache, raises no
\* error, and leaves the update-in-progress flag as it was.
C5_NoOpWriteChangesNothing ==
  [][ \A i \in Ids :
        NoOpStep(i) =>
          /\ tasks'[i].pc = "done"
          /\ ~tasks'[i].sent
          /\ tasks'[i].err = 0
          /\ caches' = caches
          /\ updateInProgress' = updateInProgress
    ]_vars

\* C5 (amended): a write whose target equals the cached value when its task
\* starts ends there, sends no command, changes no cache, raises no error and
\* does not raise the update-in-progress flag (the flag can only fall, by the
\* queue's idle event).
C5_NoOpWriteNeverSends ==
  [][ \A i \in Ids :
        NoOpStep(i) =>
          /\ tasks'[i].pc = "done"
          /\ ~tasks'[i].sent
          /\ tasks'[i].err = 0
          /\ caches' = caches
          /\ (updateInProgress' => updateInProgress)
    ]_vars

\* C5 witness: a write has ended as a no-op without sending
C5_Witness ==
  \E i \in Ids : tasks[i].out = "noop" /\ ~tasks[i].sent /\ tasks[i].h = "write"

\* C6 (as claimed): merging a digest a second time, right after merging it,
\* pushes no characteristic and changes no cache.
C6_PollMergeIdempotent ==
  /\ IsBulb =>
       \A d \in BulbDigests :
         LET m1 == MergeBulb(BulbCaches, d)
             m2 == MergeBulb(m1, d)
         IN /\ m2.emits = {}
            /\ m2.cacheState = m1.cacheState
            /\ m2.cacheMired = m1.cacheMired
  /\ IsHumidifier =>
       \A d \in HumDigests :
         LET m1 == applyUpdate(HumCaches, d)
             m2 == applyUpdate(m1, d)
         IN /\ m2.emits = {}
            /\ m2.cacheFanSpeed = m1.cacheFanSpeed
            /\ m2.cacheFanState = m1.cacheFanState

\* C7 (as claimed): a status request and a write command are never
\* outstanding at the device together.
C7_PollExcludesWrite == ~(PollInFlight /\ InFlight # {})

\* this step issues a status request or defers one into the queue
PollIssued ==
  \/ polls' > polls
  \/ Len(tasks') > Len(tasks) /\ tasks'[Len(tasks')].h = "Poll"

\* C8: while the update-in-progress flag is set no poll is issued or queued,
\* and the poll that returns at the flag test changes no cache, no
\* hub-visible value, no queue entry, no task, no timer and not the flag.
C8_PollSkippedWhileUpdating ==
  [][ /\ updateInProgress => ~PollIssued
      /\ pollSkipped' =>
           /\ updateInProgress
           /\ UNCHANGED <<accessory, caches, updateKey, updateInProgress,
                          alActive, queue, tasks, polls, timers, hub>>
    ]_vars

\* C8 witness: a poll has just returned at the flag test
C8_Witness == pollSkipped /\ updateInProgress

\* this step delivers a valid response to write task i
Confirmed(i) ==
  /\ tasks[i].pc = "sending"
  /\ tasks[i].h \in WriteHandlers
  /\ tasks'[i].res = "ok"

\* C9 (as claimed): when a write receives a valid response, the cache of the
\* written characteristic holds the written value once the task is over.
C9_SuccessCommitsValue ==
  [][ \A i \in Ids :
        Confirmed(i) =>
          LET t == tasks[i]
          IN CASE t.h = "State" -> cacheState' = JSBool(t.v = 1)
               [] t.h = "Bright" -> cacheBright' = t.v
               [] t.h = "Colour" -> cacheHue' = t.v
               [] t.h = "CT" -> cacheMired' = t.v
               [] t.h = "FanState" -> cacheFanState' = (t.v = 1)
               [] t.h = "FanSpeed" -> cacheFanSpeed' = hk2mr(Quantise(t.v))
    ]_vars

\* C9 (amended): when a write receives a valid response, the cache of the
\* written characteristic holds the written value once the task is over,
\* except that a fan-speed write of 0 leaves the cached spray mode as it was.
C9_SuccessCommitsValueUnlessOff ==
  [][ \A i \in Ids :
        Confirmed(i) =>
          LET t == tasks[i]
          IN CASE t.h = "State" -> cacheState' = JSBool(t.v = 1)
               [] t.h = "Bright" -> cacheBright' = t.v
               [] t.h = "Colour" -> cacheHue' = t.v
               [] t.h = "CT" -> cacheMired' = t.v
               [] t.h = "FanState" -> cacheFanState' = (t.v = 1)
               [] t.h = "FanSpeed" ->
                    cacheFanSpeed' = IF t.v = 0 THEN cacheFanSpeed
                                     ELSE hk2mr(Quantise(t.v))
    ]_vars

\* C9 witness: a brightness write of 55 over cache 40 was confirmed and the
\* cache is 55
C9_Witness ==
  /\ cacheBright = 55
  /\ \E i \in Ids : tasks[i].out = "ok" /\ tasks[i].res = "ok" /\ tasks[i].wrote

\* C10 (as claimed): a write that fails (error response, exception or
\* timeout) has raised exactly one hub error and set exactly one revert timer;
\* a write that ended as a no-op or was superseded has raised and set none.
C10_FailureRaisesOneError ==
  \A i \in Ids :
    tasks[i].h # "Poll" =>
      /\ (tasks[i].res \in {"error", "throw"} \/ tasks[i].timedOut)
           => (tasks[i].err = 1 /\ tasks[i].rev = 1)
      /\ tasks[i].out \in {"noop", "superseded"}
           => (tasks[i].err = 0 /\ tasks[i].rev = 0)

\* C11 (as claimed): a task that exceeds the 10 s timeout is reported to its
\* caller as a failure, the tasks queued behind it stay queued (none is
\* cancelled), and after the timeout the task changes no cache, no
\* hub-visible value and no timer.
C11_TimedOutTaskHasNoEffect ==
  [][ \A i \in Ids :
        /\ (~tasks[i].timedOut /\ tasks'[i].timedOut)
             => /\ tasks[i].h # "Poll" => tasks'[i].err = tasks[i].err + 1
                /\ queue' = queue
                /\ \A j \in Ids : j # i => tasks'[j] = tasks[j]
        /\ (tasks[i].timedOut /\ tasks'[i] # tasks[i])
             => (caches' = caches /\ hub' = hub /\ timers' = timers)
    ]_vars

\* this step ends the debounce wait of colour-temperature write i, which is
\* not superseded and whose target is not the cached mired value
CTWakes(i) ==
  /\ tasks[i].h = "CT"
  /\ tasks[i].pc = "sleep"
  /\ tasks'[i].pc # "sleep"
  /\ updateKey["CT"] = i
  /\ cacheMired # tasks[i].v

\* C12 (as claimed): a colour-temperature write that differs from the cached
\* mired value and is not superseded sends the light-control command
\* (temperature, capacity 2) exactly when the cached power state is on; when
\* it does not send it changes no cache and raises no error.
C12_CTSendsExactlyWhenOn ==
  [][ \A i \in Ids :
        CTWakes(i) =>
          /\ tasks'[i].sent <=> (cacheState = JSBool(TRUE))
          /\ tasks'[i].sent =>
               tasks'[i].cmd = [ns |-> "Appliance.Control.Light",
                                key |-> "temperature",
                                val |-> Mired2Temp(tasks[i].v), cap |-> 2]
          /\ ~tasks'[i].sent => (caches' = caches /\ tasks'[i].err = 0)
    ]_vars

\* write task i is a fan-speed write of a value in 1..75
LowSpeed(i) == tasks[i].h = "FanSpeed" /\ tasks[i].v \in 1..75

\* C13 (as claimed): a fan-speed write of a value in 1..75 that starts while
\* the cached spray mode is not 2 sends spray mode 2, and when its response is
\* valid (with no later fan-speed write and no timer outstanding) the cached
\* mode is 2 and the hub-visible RotationSpeed is 50.
C13_LowSpeedSnapsToFifty ==
  [][ \A i \in Ids :
        /\ (/\ LowSpeed(i)
            /\ tasks[i].pc = "queued"
            /\ tasks'[i].pc # "queued"
            /\ cacheFanSpeed # 2)
             => /\ tasks'[i].sent
                /\ tasks'[i].cmd = [ns |-> "Appliance.Control.Spray",
                                    key |-> "mode", val |-> 2, cap |-> 0]
        /\ (/\ LowSpeed(i)
            /\ Confirmed(i)
            /\ timers = {}
            /\ \A j \in Ids : j > i => tasks[j].h # "FanSpeed")
             => /\ cacheFanSpeed' = 2
                /\ hub'.RotationSpeed = JSNum(50)
    ]_vars

\* this step is a push message: on a humidifier, the only step that leaves
\* the tasks and the timers alone and is not a skipped poll
PushStep ==
  /\ IsHumidifier
  /\ tasks' = tasks
  /\ timers' = timers
  /\ ~pollSkipped'

\* C14: from any state, a push applies a digest to the caches and the
\* hub-visible values exactly as a poll response applies the same digest, and
\* a push leaves the accessory, its IP address and its online field alone and
\* does not save the context.
C14_PushAppliesAsPoll ==
  [][ IsHumidifier =>
        /\ \A d \in HumDigests :
             PushMerge(HumCaches, d) = PollMerge(HumCaches, d)
        /\ PushStep =>
             /\ UNCHANGED <<accessory, isOnline, ipAddress>>
             /\ ~ctxSaved'
             /\ \E d \in HumDigests :
                  LET m == PollMerge(HumCaches, d)
                  IN /\ cacheFanSpeed' = m.cacheFanSpeed
                     /\ cacheFanState' = m.cacheFanState
                     /\ hub' = Pushed(hub, m.emits)
    ]_vars

\* C14 witness: while the first poll is still awaiting its response and no
\* write was made, a push reporting mode 1 has been applied
C14_Witness ==
  /\ IsHumidifier
  /\ Len(tasks) = 1
  /\ tasks[1].pc = "sending"
  /\ ~tasks[1].timedOut
  /\ cacheFanSpeed = 1
  /\ cacheFanState
  /\ hub.RotationSpeed = JSNum(100)

\* exactly one status request is outstanding
OnePollOut ==
  IF IsBulb THEN polls = 1
  ELSE Cardinality({i \in Ids : tasks[i].h = "Poll" /\ tasks[i].pc # "done"}) = 1

\* C15 (as claimed): the constructor issues exactly one poll, and when the
\* configured polling interval is 0 no poll is issued afterwards.
C15_NoPeriodicPollWhenZero ==
  /\ OnePollOut
  /\ [][accessory.refreshRate = 0 => ~PollIssued]_vars

\* C16: fan-speed conversion is the three-level quantisation.  For every hub
\* speed s in 0..100, hk2mr(s) is 0 if s = 0, 2 if 1 <= s <= 75 and 1 if
\* 76 <= s <= 100; for every device mode m, mr2hk(m) is 0, 100, 50 for
\* m = 0, 1, 2, so hk2mr(mr2hk(m)) = m, and mr2hk(hk2mr(s)) is one of 0, 50,
\* 100 and equals s only for those three values.
C16_FanSpeedQuantisation ==
  /\ conv.fn = "hk2mr" =>
       LET s == conv.in[1]
           m == conv.out[1]
       IN /\ s = 0 => m = 0
          /\ s \in 1..75 => m = 2
          /\ s \in 76..100 => m = 1
          /\ mr2hk(m) \in {0, 50, 100}
          /\ mr2hk(m) = s <=> s \in {0, 50, 100}
  /\ conv.fn = "mr2hk" =>
       LET m == conv.in[1]
           s == conv.out[1]
       IN /\ m = 0 => s = 0
          /\ m = 1 => s = 100
          /\ m = 2 => s = 50
          /\ hk2mr(s) = m

\* speed 75, the top of the intermittent band, has been converted
C16_Witness == conv = [fn |-> "hk2mr", in |-> <<75>>, out |-> <<2>>]

\* C17: colour-temperature round trip.  For every device temperature x in
\* 1..100, converting x to mired and the result back to a device temperature
\* returns x; x = 0 is the only exception in 0..100 and returns 1; and the
\* device temperature computed from any mired value of the hub is never 0.
C17_TemperatureRoundTrip ==
  /\ conv.fn = "Temp2Mired" =>
       LET x == conv.in[1]
           back == Mired2Temp(conv.out[1])
       IN /\ x \in 1..100 => back = x
          /\ x = 0 => back = 1
  /\ conv.fn = "Mired2Temp" => conv.out[1] # 0

\* device temperature 0, the exception, has been converted to mired 500
C17_Witness == conv = [fn |-> "Temp2Mired", in |-> <<0>>, out |-> <<500>>]

\* C18: RGB round trip.  For every triple (r, g, b) with each component in
\* 0..255, packing it as (r << 16) + (g << 8) + b and unpacking the result
\* with the masks 0xff0000 >> 16, 0x00ff00 >> 8 and 0x0000ff returns the
\* original triple.
C18_RGBRoundTrip ==
  /\ conv.fn = "PackRGB" => UnpackRGB(conv.out[1]) = conv.in
  /\ conv.fn = "UnpackRGB" =>
       /\ \A i \in 1..3 : conv.out[i] \in 0..255
       /\ PackRGB(conv.out) = conv.in[1]

\* a triple with three different channels has been packed
C18_Witness ==
  conv = [fn |-> "PackRGB", in |-> <<255, 128, 1>>, out |-> <<16744449>>]

\* C19 (as claimed): for every write handler of both device types, a response
\* without a well-formed header, or whose header method is the error marker,
\* is a protocol failure: the step that receives it leaves every cache as it
\* was, sets the timer that reverts the hub-visible value, and raises the
\* communication-failure error to the hub.
C19_InvalidResponseIsFailure ==
  [][ \A i \in Ids :
        (/\ tasks[i].h # "Poll"
         /\ tasks[i].pc = "sending"
         /\ ~tasks[i].timedOut
         /\ tasks'[i].pc = "done"
         /\ tasks'[i].res = "error")
        => /\ UNCHANGED caches
           /\ tasks'[i].err = 1
           /\ \E tm \in timers' \ timers : tm.id = i /\ tm.why = "revert"
    ]_vars

\* ------------------------------------------------------------------------
\* Progress of the queue: a queued task is started once nothing is pending,
\* a sleep(300) ends, and a task that was sent either settles or is cut off
\* by the queue's 10 s timeout
\* ------------------------------------------------------------------------
QueueProgress ==
  /\ WF_vars(Start)
  /\ WF_vars(\E id \in Ids : Wake(id))
  /\ WF_vars(\E id \in Ids : Timeout(id))

LiveSpec == Spec /\ QueueProgress

\* C20: the update-in-progress flag is false whenever the queue has no
\* queued and no running task, and whenever the flag is set it is eventually
\* cleared (after writes that end as no-ops, rejections, failures or
\* timeouts alike), so polling is never blocked for good.
C20_FlagClearedWhenIdle ==
  /\ [](queue = <<>> /\ Pending(tasks) = {} => ~updateInProgress)
  /\ (updateInProgress ~> ~updateInProgress)

\* a write was sent, was cut off by the timeout, and the flag is clear again
\* with nothing queued or running
C20_Witness ==
  /\ ~updateInProgress
  /\ queue = <<>>
  /\ Pending(tasks) = {}
  /\ \E i \in Ids : tasks[i].h # "Poll" /\ tasks[i].sent /\ tasks[i].timedOut

\* nothing queued, running or still awaited, and no 2 s timer outstanding
Quiescent ==
  /\ queue = <<>>
  /\ \A i \in Ids : tasks[i].pc = "done"
  /\ polls = 0
  /\ timers = {}

\* C22 (as claimed): whenever the device is quiescent, the hub-visible value
\* of every characteristic a handler is registered on equals the value
\* denoted by its cache entry.
C22_QuiescentHubMatchesCache ==
  Quiescent =>
    \A h \in Handlers(accessory) : hub[CharOf(h)] = CachedHubValue(CharOf(h))

\* a step in which the humidifier applied the digest d: the answer to a poll
\* or a push message
Applied(d) ==
  /\ IsHumidifier
  /\ \/ \E i \in Ids :
          /\ tasks[i].h = "Poll" /\ tasks[i].pc = "sending"
          /\ tasks'[i].pc = "done"
          /\ cacheFanSpeed' = PollMerge(HumCaches, d).cacheFanSpeed
          /\ cacheFanState' = PollMerge(HumCaches, d).cacheFanState
          /\ hub' = Pushed(hub, PollMerge(HumCaches, d).emits)
     \/ /\ UNCHANGED <<tasks, queue, timers, updateInProgress>>
        /\ cacheFanSpeed' = PushMerge(HumCaches, d).cacheFanSpeed
        /\ cacheFanState' = PushMerge(HumCaches, d).cacheFanState
        /\ hub' = Pushed(hub, PushMerge(HumCaches, d).emits)
        /\ hub' # hub \/ cacheFanSpeed' # cacheFanSpeed
             \/ cacheFanState' # cacheFanState

\* C23 (as claimed): after the humidifier applies a digest, from a poll or a
\* push, that reports spray mode m, its cached fan state and the hub-visible
\* On are false if m = 0 and true if m is 1 or 2.
C23_DigestSetsFanState ==
  [][ \A m \in ModeRange :
        Applied(Digest(Absent, Absent, Absent, Absent, m))
          => /\ cacheFanState' = (m # 0)
             /\ hub'.On = JSBool(m # 0)
    ]_vars

\* C24 (as claimed): when a lightbulb poll response reports an RGB value
\* while the adaptive-lighting controller is active, adaptive lighting has
\* been disabled when the processing of that response ends.
C24_RGBPollDisablesAdaptive ==
  \A d \in BulbDigests :
    (/\ IsBulb /\ accessory.model # "MSS1101"
     /\ polls > 0
     /\ d.rgb # Absent
     /\ alActive)
    => ~MergeBulb(BulbCaches, d).alActive

\* the humidifier polls whose promise the queue still awaits
LivePolls ==
  {i \in Ids : tasks[i].h = "Poll" /\ tasks[i].pc = "sending"
               /\ ~tasks[i].timedOut}

\* a failed poll marks an online device offline and saves the context, and
\* no poll raises a hub error
PollFailureMarksOffline ==
  /\ [](\A i \in Ids : tasks[i].h = "Poll" => tasks[i].err = 0)
  /\ [](\A i \in LivePolls :
          isOnline =>
            PollFailed(tasks[i].v = 1, "EHOSTUNREACH")
              = [isOnline |-> FALSE, saved |-> TRUE])
  /\ [][ \A i \in LivePolls :
           (isOnline /\ tasks'[i].timedOut) => (~isOnline' /\ ctxSaved')
       ]_vars

\* C26 (as claimed): a humidifier poll that fails with a host-unreachable or
\* timed-out error while the device is marked online marks it offline, saves
\* the context and raises no hub error; the next successful poll marks the
\* device online again.
C26_OfflineThenOnlineAgain ==
  /\ PollFailureMarksOffline
  /\ [](\A i \in LivePolls : \A sy \in SysInfos :
          ~isOnline => PollContext(tasks[i].v = 1, sy).isOnline)

\* C26 (amended): as above, the device being marked online again by the next
\* successful poll whose system data reports the online status 1, with the
\* context saved.
C26_OnlineAgainWhenReported ==
  /\ PollFailureMarksOffline
  /\ [](\A i \in LivePolls : \A sy \in SysInfos :
          (~isOnline /\ sy.present /\ sy.status = 1)
            => /\ PollContext(tasks[i].v = 1, sy).isOnline
               /\ PollContext(tasks[i].v = 1, sy).saved)

\* the device was marked offline and the next poll is awaiting its response
C26_Witness == ~isOnline /\ LivePolls # {}

\* the digests that report a temperature: those the polls of the model
\* deliver, and one for every value of the device's temperature scale
TempDigests ==
  {d \in BulbDigests : d.temp # Absent}
    \cup {Digest(Absent, Absent, Absent, x, Absent) : x \in TempRange}

\* C25 (as claimed): when a lightbulb poll reports a temperature whose mired
\* equivalent differs from the cached mired by more than 10 while adaptive
\* lighting is active, adaptive lighting is disabled; a difference of 10 or
\* less never disables it; and the cache and the hub value are updated for
\* any non-zero difference.
C25_TemperatureJumpDisablesAdaptive ==
  (IsBulb /\ accessory.model # "MSS1101" /\ polls > 0) =>
    \A d \in TempDigests :
      LET m == MergeBulb(BulbCaches, d)
          mired == Temp2Mired(d.temp)
          dif == Abs(cacheMired - mired)
      IN /\ (alActive /\ dif > 10) => ~m.alActive
         /\ dif <= 10 => m.alActive = alActive
         /\ dif # 0 => /\ m.cacheMired = mired
                       /\ <<"ColorTemperature", JSNum(mired)>> \in m.emits

\* C27 (as claimed): after the hub's shutdown event has been delivered to a
\* lightbulb whose periodic polling was enabled, the interval timer is
\* stopped: requestDeviceUpdate is not called again, neither issuing a status
\* request nor returning at the flag test.
C27_NoPollAfterShutdown ==
  [][ (IsBulb /\ Polling(accessory) /\ shutdown)
        => (~PollIssued /\ ~pollSkipped')
    ]_vars

\* the response to a status request is processed in this step
PollAnswered ==
  IF IsBulb THEN polls' < polls
  ELSE \E i \in Ids :
         tasks[i].h = "Poll" /\ tasks[i].pc = "sending" /\ tasks'[i].pc = "done"

\* the power value the caches denote
CachedOn == IF IsBulb THEN cacheState ELSE JSBool(cacheFanState)

\* C21 (as claimed): once a power write has been confirmed by the device,
\* the response to a status request that was sent before that write command
\* never puts the pre-write value back into the cache or into the hub-visible
\* On characteristic.
C21_StalePollNeverReverts ==
  [][ (confirmedOn # Absent /\ PollAnswered) =>
        LET pre == JSBool(confirmedOn = 0)
        IN /\ ~(hub.On # pre /\ hub'.On = pre)
           /\ ~(CachedOn # pre /\ CachedOn' = pre)
    ]_vars

====
